---- MODULE Spec2Model ----
(***************************************************************************)
(* A model of the terminal text editor: the rope-backed Buffer             *)
(* (src/src/editor/buffer.rs) and the Editor session that owns it          *)
(* (src/src/editor/mod.rs).                                                *)
(*                                                                         *)
(* Text is a sequence of characters, each named by a string.                *)
(* Offsets are 0-based as in the source, sequences are 1-based, so the     *)
(* character at offset i is text[i + 1].                                   *)
(***************************************************************************)
EXTENDS Integers, Sequences, FiniteSets, TLC

VARIABLES
    pc,                 \* where the process is: see the PC* names below
    text,               \* Buffer.text
    cursor_idx,         \* Buffer.cursor_idx
    visual_origin_row,  \* Buffer.visual_origin_row
    visual_origin_col,  \* Buffer.visual_origin_col
    visual_width,       \* Buffer.visual_width
    visual_height,      \* Buffer.visual_height
    file_path,          \* Buffer.file_path, <<>> when empty
    disk,               \* the decoded contents of the file, <<>> when there is none
    args,               \* env::args() after the program's name
    screen,             \* the content rows the last render wrote, where a
                        \* specification follows the output; <<>> elsewhere
    dirty_buffer,       \* Buffer.dirty_buffer
    footer_text,        \* Editor.footer_text
    term_rows,          \* rows reported by crossterm's size()
    term_cols,          \* columns reported by crossterm's size()
    raw_mode,           \* the terminal is in raw mode
    alt_screen,         \* the terminal shows the alternate screen
    prompt_text,        \* editor_prompt's prompt_text while a prompt is open
    user_input,         \* editor_prompt's user_input while a prompt is open
    target,             \* the Ctrl+F handler's target while its second prompt is open
    quit,               \* mainloop's quit: what handle_key_event returned last
    found,              \* what go_to_next_instance returned last
    event               \* the event being handled, or the last one handled when the
                        \* process has ended; NoEvent at the head of mainloop's loop

bufVars  == <<text, cursor_idx>>
viewVars == <<visual_origin_row, visual_origin_col, visual_width, visual_height>>
termVars == <<term_rows, term_cols, raw_mode, alt_screen>>
promptVars == <<prompt_text, user_input, target>>
vars == <<pc, text, cursor_idx, visual_origin_row, visual_origin_col,
          visual_width, visual_height, file_path, disk, args, screen, dirty_buffer, footer_text,
          term_rows, term_cols, raw_mode, alt_screen, prompt_text, user_input,
          target, quit, found, event>>

(***************************************************************************)
(* Bounds of the model.                                                    *)
(***************************************************************************)
MaxLen == 4         \* longest text of the buffer-level specifications
MaxEditLen == 1     \* longest text of the session specification
MaxRows == 3        \* most terminal rows
MaxCols == 2        \* most terminal columns
MaxSessionCols == 1 \* most terminal columns of the session specification
MaxOrigin == 2      \* largest scroll origin drawn for align_cursor's inputs
MaxAlignLen == 3    \* longest text drawn for align_cursor's inputs
MaxAlignRows == 5   \* most rows drawn for align_cursor's inputs
MaxSearchLen == 3   \* longest text drawn for go_to_next_instance, the example aside
MaxMoves == 6       \* most repeated calls of move_right or move_left
MaxLoadLen == 5     \* longest file contents drawn for from_path
MaxArgs == 3
MaxRenderLen == 3
MaxRenderCols == 3
MaxRenderRows == 4        \* most command-line arguments after the program's name

(***************************************************************************)
(* Characters.                                                             *)
(***************************************************************************)
LF  == "\n"
CR  == "\r"
TAB == "\t"
EACUTE == "U+00E9"  \* a character of two UTF-8 bytes
CJK == "U+4E16"     \* a character of three UTF-8 bytes, two cells wide

\* char::encode_utf8 / String::len: the bytes of a character's UTF-8 encoding.
Utf8Len(c) ==
    CASE c = EACUTE -> 2
      [] c = CJK -> 3
      [] OTHER -> 1

RECURSIVE ByteLen(_)
\* String::len(): the length of a string in bytes.
ByteLen(s) == IF s = <<>> THEN 0 ELSE Utf8Len(Head(s)) + ByteLen(Tail(s))

Min(a, b) == IF a <= b THEN a ELSE b

\* All sequences over S of length at most n.
SeqsUpTo(S, n) == UNION {[1..k -> S] : k \in 0..n}

(***************************************************************************)
(* The rope: ropey's line arithmetic.  A line ends after a line feed, or   *)
(* after a carriage return that no line feed follows (CRLF is one break).  *)
(***************************************************************************)
\* The character at 1-based position i ends a line.
BreakEnd(t, i) ==
    \/ t[i] = LF
    \/ t[i] = CR /\ ~(i < Len(t) /\ t[i + 1] = LF)

\* The number of line breaks in the first k characters of t.
NumBreaks(t, k) == Cardinality({i \in 1..k : BreakEnd(t, i)})

\* Rope::len_chars
LenChars(t) == Len(t)

\* Rope::len_lines: one more than the number of line breaks.
LenLines(t) == NumBreaks(t, Len(t)) + 1

\* Rope::char_to_line, for idx <= len_chars (it panics beyond).
CharToLine(t, idx) == NumBreaks(t, idx)

\* Rope::line_to_char, for l <= len_lines (l = len_lines gives len_chars).
LineToChar(t, l) ==
    IF l = 0 THEN 0
    ELSE IF l >= LenLines(t) THEN Len(t)
    ELSE CHOOSE i \in 1..Len(t) : BreakEnd(t, i) /\ NumBreaks(t, i) = l

\* Rope::line(l), with its line terminator when it has one.
Line(t, l) == SubSeq(t, LineToChar(t, l) + 1, LineToChar(t, l + 1))

\* Buffer::get_logical_cursor_line
GetLogicalCursorLine(t, cur) == CharToLine(t, cur)

\* Buffer::get_logical_cursor_col
GetLogicalCursorCol(t, cur) == cur - LineToChar(t, GetLogicalCursorLine(t, cur))

(***************************************************************************)
(* Positions of the process.                                               *)
(***************************************************************************)
PCStart   == "start"     \* before Editor::from_path
PCMain    == "main"      \* at the head of mainloop's loop
PCPrompt  == "prompt"    \* at the head of editor_prompt's loop
PCExitOk  == "exit_ok"   \* mainloop returned Ok(())
PCExitErr == "exit_err"  \* from_path or mainloop returned Err
PCPanic   == "panic"     \* the thread panicked
PCBuffer  == "buffer"    \* a Buffer on its own, taking key events
PCAlignIn == "align_in"  \* align_cursor's inputs drawn
PCAlignOut == "align_out" \* align_cursor has returned
PCAlignTwice == "align_twice"
PCRenderIn == "render_in"
PCRendered == "rendered"
PCSearch  == "search"    \* a Buffer on its own, taking searches
PCRoundTrip == "round_trip"  \* a Buffer on its own, taking a key and Backspace
PCLoaded == "loaded"     \* Buffer::from_path has returned the Buffer
PCSaved == "saved"       \* Buffer::save_file has returned
PCUsage == "usage"       \* main has printed its usage line and called exit(1)

(***************************************************************************)
(* Key events: crossterm's KeyEvent {code, modifiers, kind}.  ch is the    *)
(* character of KeyCode::Char and "" otherwise; w and h are the size of an *)
(* Event::Resize and 0 otherwise.                                          *)
(***************************************************************************)
Ev(kind, code, ch, ctrl, press, w, h) ==
    [kind |-> kind, code |-> code, ch |-> ch, ctrl |-> ctrl, press |-> press,
     w |-> w, h |-> h]

Key(code, ch, ctrl) == Ev("Key", code, ch, ctrl, TRUE, 0, 0)
KeyNotPress(code, ch, ctrl) == Ev("Key", code, ch, ctrl, FALSE, 0, 0)
Resize(w, h) == Ev("Resize", "", "", FALSE, FALSE, w, h)
OtherEvent == Ev("Other", "", "", FALSE, FALSE, 0, 0)
ReadError == Ev("Err", "", "", FALSE, FALSE, 0, 0)
NoEvent == Ev("None", "", "", FALSE, FALSE, 0, 0)

(***************************************************************************)
(* Buffer: cursor moves and edits.  Each operator gives the cursor (or the *)
(* text and cursor) after the call, for cur <= len_chars.                  *)
(***************************************************************************)
\* The C17 mutant of MoveRight: no clamp at the end of the text.
MoveRightUnclamped(t, cur) == cur + 1

\* Buffer::move_right
MoveRight(t, cur) == IF cur < LenChars(t) THEN cur + 1 ELSE cur

\* Buffer::move_left
MoveLeft(t, cur) == IF cur > 0 THEN cur - 1 ELSE cur

\* The cursor move_up and move_down make into line next_line_idx.
MoveIntoLine(t, cur, next_line_idx) ==
    LET next_line_char_idx == LineToChar(t, next_line_idx)
        next_line_len == Len(Line(t, next_line_idx))
    IN  IF next_line_len <= 1 \/ GetLogicalCursorCol(t, cur) = 0
        THEN next_line_char_idx
        ELSE next_line_char_idx + Min(next_line_len, GetLogicalCursorCol(t, cur))

\* Buffer::move_up
MoveUp(t, cur) ==
    LET cursor_line == GetLogicalCursorLine(t, cur)
    IN  IF cursor_line = 0 THEN 0
        ELSE MoveIntoLine(t, cur, cursor_line - 1)

\* Buffer::move_down
MoveDown(t, cur) ==
    LET cursor_line == GetLogicalCursorLine(t, cur)
    IN  IF cursor_line = LenLines(t) - 1 THEN LenChars(t)
        ELSE MoveIntoLine(t, cur, cursor_line + 1)

\* The End key without the control modifier: get_line(..).len() is a length
\* in bytes.
LineEnd(t, cur) ==
    LET current_line_idx == GetLogicalCursorLine(t, cur)
        current_line_len == ByteLen(Line(t, current_line_idx))
        current_line_char_idx == LineToChar(t, current_line_idx)
    IN  current_line_char_idx + current_line_len - Min(current_line_len, 1)

\* The C14 mutant of Insert: the character goes to the end of the text.
InsertAtEnd(t, idx, c) == Append(t, c)

\* Rope::insert of one character at offset idx.
Insert(t, idx, c) == SubSeq(t, 1, idx) \o <<c>> \o SubSeq(t, idx + 1, Len(t))

\* The C18 mutant of Remove: the character before offset idx goes.
RemoveBefore(t, idx) == SubSeq(t, 1, idx - 1) \o SubSeq(t, idx + 1, Len(t))

\* Rope::remove of the one character at offset idx.
Remove(t, idx) == SubSeq(t, 1, idx) \o SubSeq(t, idx + 2, Len(t))

\* Buffer::handle_key_event panics: get_logical_cursor_pos calls
\* Rope::char_to_line, which panics past the end of the text.
BufferPanics(t, cur) == cur > LenChars(t)

\* Buffer::handle_key_event, for cur <= len_chars.
BufferHandleKeyEvent(t, cur, k) ==
    LET same == [text |-> t, cursor_idx |-> cur]
        at(c) == [text |-> t, cursor_idx |-> c]
    IN  IF ~k.press THEN same
        ELSE CASE k.code = "Right" -> at(MoveRight(t, cur))
               [] k.code = "Left" -> at(MoveLeft(t, cur))
               [] k.code = "Up" -> at(MoveUp(t, cur))
               [] k.code = "Down" -> at(MoveDown(t, cur))
               [] k.code = "Home" ->
                    IF k.ctrl THEN at(0)
                    ELSE at(LineToChar(t, GetLogicalCursorLine(t, cur)))
               [] k.code = "End" ->
                    IF k.ctrl THEN at(LenChars(t)) ELSE at(LineEnd(t, cur))
               [] k.code = "Char" ->
                    [text |-> Insert(t, cur, k.ch), cursor_idx |-> cur + 1]
               [] k.code = "Enter" ->
                    [text |-> Insert(t, cur, LF), cursor_idx |-> cur + 1]
               [] k.code = "Backspace" ->
                    IF cur # 0
                    THEN [text |-> Remove(t, cur - 1), cursor_idx |-> cur - 1]
                    ELSE same
               [] k.code = "Tab" ->
                    [text |-> Insert(t, cur, TAB), cursor_idx |-> cur + 1]
               [] k.code = "Delete" ->
                    IF cur # LenChars(t)
                    THEN [text |-> Remove(t, cur), cursor_idx |-> cur]
                    ELSE same
               [] OTHER -> same

\* The edit operations, each of which sets dirty_buffer.
IsEdit(k) ==
    k.press /\ k.code \in {"Char", "Enter", "Tab", "Backspace", "Delete"}

\* Buffer.dirty_buffer after handle_key_event(k).
DirtyAfterKey(dirty, k) == dirty \/ IsEdit(k)

(***************************************************************************)
(* SpecBuffer: a freshly loaded Buffer taking key-press events through     *)
(* Buffer::handle_key_event.                                               *)
(***************************************************************************)
\* The characters of loaded files and of KeyCode::Char.
BufChars == {"a", EACUTE}
LoadChars == BufChars \union {LF}

\* The state outside the Buffer, which the buffer-level specifications leave alone.
restVars == <<visual_origin_row, visual_origin_col, visual_width, visual_height,
              file_path, disk, args, screen, footer_text, term_rows, term_cols, raw_mode, alt_screen,
              prompt_text, user_input, target, quit, found>>

RestInit ==
    /\ visual_origin_row = 0
    /\ visual_origin_col = 0
    /\ visual_width = MaxCols
    /\ visual_height = MaxRows
    /\ file_path = <<>>
    /\ disk = <<>>
    /\ args = <<>>
    /\ screen = <<>>
    /\ dirty_buffer = FALSE
    /\ footer_text = <<>>
    /\ term_rows = MaxRows
    /\ term_cols = MaxCols
    /\ raw_mode = FALSE
    /\ alt_screen = FALSE
    /\ prompt_text = ""
    /\ user_input = <<>>
    /\ target = <<>>
    /\ quit = FALSE
    /\ found = "none"
    /\ event = NoEvent

InitBuffer ==
    /\ pc = PCBuffer
    /\ text \in SeqsUpTo(LoadChars, MaxLen)
    /\ cursor_idx = 0
    /\ RestInit

\* One call of Buffer::handle_key_event(k).
BufferStep(k) ==
    /\ event' = k
    /\ IF BufferPanics(text, cursor_idx)
       THEN /\ pc' = PCPanic
            /\ UNCHANGED <<text, cursor_idx, dirty_buffer>>
       ELSE LET r == BufferHandleKeyEvent(text, cursor_idx, k)
            IN  /\ Len(r.text) <= MaxLen
                /\ text' = r.text
                /\ cursor_idx' = r.cursor_idx
                /\ dirty_buffer' = DirtyAfterKey(dirty_buffer, k)
                /\ pc' = PCBuffer
    /\ UNCHANGED restVars

KeyRight == pc = PCBuffer /\ BufferStep(Key("Right", "", FALSE))
KeyLeft == pc = PCBuffer /\ BufferStep(Key("Left", "", FALSE))
KeyUp == pc = PCBuffer /\ BufferStep(Key("Up", "", FALSE))
KeyDown == pc = PCBuffer /\ BufferStep(Key("Down", "", FALSE))
KeyHome == pc = PCBuffer /\ \E ctrl \in BOOLEAN : BufferStep(Key("Home", "", ctrl))
KeyEnd == pc = PCBuffer /\ \E ctrl \in BOOLEAN : BufferStep(Key("End", "", ctrl))
KeyChar == pc = PCBuffer /\ \E c \in BufChars : BufferStep(Key("Char", c, FALSE))
KeyEnter == pc = PCBuffer /\ BufferStep(Key("Enter", "", FALSE))
KeyTab == pc = PCBuffer /\ BufferStep(Key("Tab", "", FALSE))
KeyBackspace == pc = PCBuffer /\ BufferStep(Key("Backspace", "", FALSE))
KeyDelete == pc = PCBuffer /\ BufferStep(Key("Delete", "", FALSE))

NextBuffer ==
    \/ KeyRight
    \/ KeyLeft
    \/ KeyUp
    \/ KeyDown
    \/ KeyHome
    \/ KeyEnd
    \/ KeyChar
    \/ KeyEnter
    \/ KeyTab
    \/ KeyBackspace
    \/ KeyDelete

SpecBuffer == InitBuffer /\ [][NextBuffer]_vars

(***************************************************************************)
(* Claims about the Buffer.                                                *)
(***************************************************************************)
\* C1: in every state reached from a freshly loaded buffer by key-press
\* events, 0 <= cursor_idx <= len_chars(text), also for text with characters
\* of more than one UTF-8 byte.
C1_CursorInBounds == 0 <= cursor_idx /\ cursor_idx <= LenChars(text)

\* The length of line l without its line terminator.
ContentLen(t, l) ==
    LET ln == Line(t, l)
        n == Len(ln)
    IN  IF n >= 2 /\ ln[n - 1] = CR /\ ln[n] = LF THEN n - 2
        ELSE IF n >= 1 /\ ln[n] \in {LF, CR} THEN n - 1
        ELSE n

\* The cursor is on line l at column c.
CursorAt(t, cur, l, c) ==
    /\ cur <= LenChars(t)
    /\ GetLogicalCursorLine(t, cur) = l
    /\ GetLogicalCursorCol(t, cur) = c

\* A vertical move from column c > 0 into the non-empty line l, shorter
\* than c, ends on line l at the column of the end of its content.
ClampsInto(l) ==
    LET c == GetLogicalCursorCol(text, cursor_idx)
        n == ContentLen(text, l)
    IN  (c > 0 /\ n >= 1 /\ n < c) => CursorAt(text', cursor_idx', l, n)

\* C4: move_up from a line L >= 1 (move_down from a line that is not the
\* last) at column c > 0 into a non-empty target line of content length
\* n < c leaves the cursor on the target line at column n.
C4_VerticalClamp ==
    [][(pc = PCBuffer /\ pc' = PCBuffer /\ ~BufferPanics(text, cursor_idx)) =>
        LET L == GetLogicalCursorLine(text, cursor_idx)
        IN  /\ (event' = Key("Up", "", FALSE) /\ L >= 1) => ClampsInto(L - 1)
            /\ (event' = Key("Down", "", FALSE) /\ L < LenLines(text) - 1)
                    => ClampsInto(L + 1)]_vars

\* In SpecBuffer: this step is handle_key_event(k) on a cursor inside the
\* text.
Pressed(k) ==
    pc = PCBuffer /\ pc' = PCBuffer /\ event' = k /\ cursor_idx <= LenChars(text)

\* C13: Home without the control modifier puts the cursor on the start of
\* its line and End on the end of the line's content, its line terminator
\* excluded, also on a last line without terminator; with the control
\* modifier they put it on 0 and on len_chars.  The text stays.
C13_HomeEnd ==
    [][LET L == GetLogicalCursorLine(text, cursor_idx)
           start == LineToChar(text, L)
       IN  /\ Pressed(Key("Home", "", FALSE)) =>
                (cursor_idx' = start /\ text' = text)
           /\ Pressed(Key("End", "", FALSE)) =>
                (cursor_idx' = start + ContentLen(text, L) /\ text' = text)
           /\ Pressed(Key("Home", "", TRUE)) => (cursor_idx' = 0 /\ text' = text)
           /\ Pressed(Key("End", "", TRUE)) =>
                (cursor_idx' = LenChars(text) /\ text' = text)
      ]_vars

RECURSIVE MoveRightTimes(_, _, _)
\* The cursor after k calls of move_right.
MoveRightTimes(t, cur, k) ==
    IF k = 0 THEN cur ELSE MoveRightTimes(t, MoveRight(t, cur), k - 1)

RECURSIVE MoveLeftTimes(_, _, _)
\* The cursor after k calls of move_left.
MoveLeftTimes(t, cur, k) ==
    IF k = 0 THEN cur ELSE MoveLeftTimes(t, MoveLeft(t, cur), k - 1)

\* C17: Right moves the cursor by one, or leaves it at len_chars; Left moves
\* it back by one, or leaves it at 0; neither changes the text; and k calls
\* of move_right from i end at min(i + k, len_chars), k calls of move_left
\* at max(i - k, 0).
C17_HorizontalMoves ==
    [][/\ Pressed(Key("Right", "", FALSE)) =>
            /\ text' = text
            /\ cursor_idx' = IF cursor_idx < LenChars(text)
                             THEN cursor_idx + 1 ELSE LenChars(text)
       /\ Pressed(Key("Left", "", FALSE)) =>
            /\ text' = text
            /\ cursor_idx' = IF cursor_idx > 0 THEN cursor_idx - 1 ELSE 0
       /\ (pc = PCBuffer /\ cursor_idx <= LenChars(text)) =>
            \A k \in 0..MaxMoves :
                /\ MoveRightTimes(text, cursor_idx, k)
                    = Min(cursor_idx + k, LenChars(text))
                /\ MoveLeftTimes(text, cursor_idx, k)
                    = IF cursor_idx - k > 0 THEN cursor_idx - k ELSE 0
      ]_vars

\* C17's case: Right at the end of a text of three characters, reached from
\* offset 0.
C17_Witness ==
    /\ pc = PCBuffer
    /\ event = Key("Right", "", FALSE)
    /\ Len(text) = 3
    /\ cursor_idx = 3
    /\ ~dirty_buffer

\* t is s without the character at offset idx.
Without(t, s, idx) ==
    /\ Len(t) = Len(s) - 1
    /\ \A i \in 1..Len(t) : t[i] = IF i <= idx THEN s[i] ELSE s[i + 1]

\* C18: Backspace at offset 0 and Delete at len_chars change neither text
\* nor cursor and do not panic; elsewhere Backspace removes the character
\* before the cursor and moves the cursor back by one, and Delete removes
\* the character at the cursor and leaves the cursor.
C18_Deletes ==
    [][(pc = PCBuffer /\ cursor_idx <= LenChars(text)) =>
        /\ event' = Key("Backspace", "", FALSE) =>
            /\ pc' = PCBuffer
            /\ IF cursor_idx = 0
               THEN text' = text /\ cursor_idx' = 0
               ELSE Without(text', text, cursor_idx - 1)
                    /\ cursor_idx' = cursor_idx - 1
        /\ event' = Key("Delete", "", FALSE) =>
            /\ pc' = PCBuffer
            /\ cursor_idx' = cursor_idx
            /\ IF cursor_idx = LenChars(text)
               THEN text' = text
               ELSE Without(text', text, cursor_idx)
      ]_vars

\* C18's case: Delete at the end of a text that a Backspace at its start
\* left alone before.
C18_Witness ==
    /\ pc = PCBuffer
    /\ event = Key("Delete", "", FALSE)
    /\ Len(text) = MaxLen
    /\ cursor_idx = LenChars(text)
    /\ dirty_buffer

(***************************************************************************)
(* SpecRoundTrip: a key that inserts a character, then Backspace, on a     *)
(* Buffer with the cursor anywhere in its text.                            *)
(***************************************************************************)
\* The key presses that insert one character.
InsertKeys ==
    {Key("Char", c, FALSE) : c \in BufChars}
    \union {Key("Enter", "", FALSE), Key("Tab", "", FALSE)}

InitRoundTrip ==
    /\ pc = PCRoundTrip
    /\ text \in SeqsUpTo(LoadChars, MaxLen)
    /\ cursor_idx \in 0..Len(text)
    /\ RestInit

\* handle_key_event(k) for an inserting key k, then handle_key_event for
\* Backspace.
InsertThenBackspace ==
    /\ pc = PCRoundTrip
    /\ \E k \in InsertKeys :
        LET r1 == BufferHandleKeyEvent(text, cursor_idx, k)
            r2 == BufferHandleKeyEvent(r1.text, r1.cursor_idx,
                                       Key("Backspace", "", FALSE))
        IN  /\ text' = r2.text
            /\ cursor_idx' = r2.cursor_idx
            /\ dirty_buffer' = DirtyAfterKey(DirtyAfterKey(dirty_buffer, k),
                                             Key("Backspace", "", FALSE))
    /\ event' = Key("Backspace", "", FALSE)
    /\ pc' = PCRoundTrip
    /\ UNCHANGED <<visual_origin_row, visual_origin_col, visual_width,
                   visual_height, file_path, disk, args, screen, footer_text, term_rows,
                   term_cols, raw_mode, alt_screen, prompt_text, user_input,
                   target, quit, found>>

NextRoundTrip == InsertThenBackspace

SpecRoundTrip == InitRoundTrip /\ [][NextRoundTrip]_vars

\* C14: for every text, cursor offset i and character c, the key that
\* inserts c puts it at offset i and the cursor on i + 1, and Backspace
\* after it gives the text and the cursor back.
C14_InsertBackspace ==
    [][pc = PCRoundTrip =>
        /\ text' = text
        /\ cursor_idx' = cursor_idx
        /\ \A k \in InsertKeys :
            LET r1 == BufferHandleKeyEvent(text, cursor_idx, k)
            IN  /\ r1.cursor_idx = cursor_idx + 1
                /\ Without(text, r1.text, cursor_idx)
                /\ r1.text[cursor_idx + 1]
                    = (CASE k.code = "Char" -> k.ch
                         [] k.code = "Enter" -> LF
                         [] k.code = "Tab" -> TAB)
      ]_vars

\* C14's case: a character went into the middle of a text and Backspace
\* took it out again.
C14_Witness ==
    /\ pc = PCRoundTrip
    /\ event = Key("Backspace", "", FALSE)
    /\ dirty_buffer
    /\ Len(text) = MaxLen
    /\ cursor_idx = 2

(***************************************************************************)
(* Editor::align_cursor.                                                   *)
(*                                                                         *)
(* The fields are usize.  An intermediate result below zero is kept as the *)
(* negative number n that stands for the wrapped value 2^64 + n: a build   *)
(* with overflow checks panics where one arises, a build without them goes *)
(* on with the wrapped value.                                              *)
(***************************************************************************)
\* a >= b on usize values, either of which may be a wrapped one.
UGe(a, b) == IF (a < 0) = (b < 0) THEN a >= b ELSE a < 0

\* align_cursor panics whatever the build: it is past the rows < 3 return
\* and Rope::char_to_line is called past the end of the text.
AlignPanics(t, cur, rows) == rows >= 3 /\ cur > LenChars(t)

\* The C21 mutant of AlignCursor: scrolling down puts the cursor's line on
\* the first content row instead of the last.
AlignCursorToTop(t, cur, orow, ocol, vw, vh, rows) ==
    IF rows < 3
    THEN [visual_origin_row |-> orow, visual_origin_col |-> ocol, overflow |-> FALSE]
    ELSE LET line_idx == CharToLine(t, cur)
             col_idx == cur - LineToChar(t, line_idx)
             row1 == IF line_idx < orow THEN line_idx ELSE orow
             below == UGe(line_idx, row1 + vh - 2)
             row2 == IF below THEN line_idx ELSE row1
             col1 == IF col_idx < ocol THEN col_idx ELSE ocol
             right == col_idx >= col1 + vw
             col2 == IF right THEN col_idx - vw + 1 ELSE col1
         IN  [visual_origin_row |-> row2, visual_origin_col |-> col2,
              overflow |-> (row1 + vh < 2) \/ (below /\ vh < 3)]

\* The C2 mutant of AlignCursor: scrolling right leaves the cursor one
\* column past the last visible one.
AlignCursorNoPlusOne(t, cur, orow, ocol, vw, vh, rows) ==
    IF rows < 3
    THEN [visual_origin_row |-> orow, visual_origin_col |-> ocol, overflow |-> FALSE]
    ELSE LET line_idx == CharToLine(t, cur)
             col_idx == cur - LineToChar(t, line_idx)
             row1 == IF line_idx < orow THEN line_idx ELSE orow
             below == UGe(line_idx, row1 + vh - 2)
             row2 == IF below THEN line_idx - (vh - 3) ELSE row1
             col1 == IF col_idx < ocol THEN col_idx ELSE ocol
             right == col_idx >= col1 + vw
             col2 == IF right THEN col_idx - vw ELSE col1
         IN  [visual_origin_row |-> row2, visual_origin_col |-> col2,
              overflow |-> (row1 + vh < 2) \/ (below /\ vh < 3)]

\* Editor::align_cursor, for a cursor within the text: the scroll origin it
\* leaves, and whether a subtraction overflowed on the way.
AlignCursor(t, cur, orow, ocol, vw, vh, rows) ==
    IF rows < 3
    THEN [visual_origin_row |-> orow, visual_origin_col |-> ocol, overflow |-> FALSE]
    ELSE LET line_idx == CharToLine(t, cur)
             col_idx == cur - LineToChar(t, line_idx)
             row1 == IF line_idx < orow THEN line_idx ELSE orow
             below == UGe(line_idx, row1 + vh - 2)
             row2 == IF below THEN line_idx - (vh - 3) ELSE row1
             col1 == IF col_idx < ocol THEN col_idx ELSE ocol
             right == col_idx >= col1 + vw
             col2 == IF right THEN col_idx - vw + 1 ELSE col1
         IN  [visual_origin_row |-> row2, visual_origin_col |-> col2,
              overflow |-> (row1 + vh < 2) \/ (below /\ vh < 3)]

(***************************************************************************)
(* SpecAlign: one call of align_cursor on drawn inputs.                    *)
(***************************************************************************)
InitAlign ==
    /\ pc = PCAlignIn
    /\ text \in SeqsUpTo({"a", LF}, MaxAlignLen)
    /\ cursor_idx \in 0..Len(text)
    /\ visual_origin_row \in 0..MaxOrigin
    /\ visual_origin_col \in 0..MaxOrigin
    /\ visual_width \in 0..MaxCols
    /\ visual_height \in 0..MaxAlignRows
    /\ term_rows \in 2..MaxAlignRows
    /\ term_cols = 1
    /\ file_path = <<>>
    /\ disk = <<>>
    /\ args = <<>>
    /\ screen = <<>>
    /\ dirty_buffer = FALSE
    /\ footer_text = <<>>
    /\ raw_mode = FALSE
    /\ alt_screen = FALSE
    /\ prompt_text = ""
    /\ user_input = <<>>
    /\ target = <<>>
    /\ quit = FALSE
    /\ found = "none"
    /\ event = NoEvent

alignRest == <<text, cursor_idx, visual_width, visual_height, file_path, disk, args, screen,
               dirty_buffer, footer_text, term_rows, term_cols, raw_mode,
               alt_screen, prompt_text, user_input, target, quit, found, event>>

\* align_cursor returns.
AlignReturns ==
    /\ pc = PCAlignIn
    /\ LET r == AlignCursor(text, cursor_idx, visual_origin_row, visual_origin_col,
                            visual_width, visual_height, term_rows)
       IN  /\ visual_origin_row' = r.visual_origin_row
           /\ visual_origin_col' = r.visual_origin_col
    /\ pc' = PCAlignOut
    /\ UNCHANGED alignRest

\* align_cursor is called again on the state the first call left, as
\* mainloop does after the next event when that event changed nothing.
AlignAgain ==
    /\ pc = PCAlignOut
    /\ LET r == AlignCursor(text, cursor_idx, visual_origin_row, visual_origin_col,
                            visual_width, visual_height, term_rows)
       IN  /\ visual_origin_row' = r.visual_origin_row
           /\ visual_origin_col' = r.visual_origin_col
    /\ pc' = PCAlignTwice
    /\ UNCHANGED alignRest

\* align_cursor panics on an overflowing subtraction (overflow checks on).
AlignOverflows ==
    /\ pc \in {PCAlignIn, PCAlignOut}
    /\ AlignCursor(text, cursor_idx, visual_origin_row, visual_origin_col,
                   visual_width, visual_height, term_rows).overflow
    /\ pc' = PCPanic
    /\ UNCHANGED <<visual_origin_row, visual_origin_col>>
    /\ UNCHANGED alignRest

NextAlign ==
    \/ AlignReturns
    \/ AlignAgain
    \/ AlignOverflows

SpecAlign == InitAlign /\ [][NextAlign]_vars

\* The viewport invariant: the cursor's logical line and column lie inside
\* the viewport, whose content rows are visual_height - 2.
InViewport ==
    LET line_idx == CharToLine(text, cursor_idx)
        col_idx == cursor_idx - LineToChar(text, line_idx)
    IN  /\ visual_origin_row <= line_idx
        /\ line_idx < visual_origin_row + visual_height - 2
        /\ visual_origin_col <= col_idx
        /\ col_idx < visual_origin_col + visual_width

\* C2 as stated: after align_cursor on a terminal of at least 3 rows, for any
\* viewport width, the cursor is inside the viewport.
C2_AlignPostAnyWidth ==
    (pc = PCAlignOut /\ term_rows >= 3 /\ visual_height = term_rows) => InViewport

\* C2 as amended: after align_cursor on a terminal of at least 3 rows whose
\* viewport is at least 1 column wide, the cursor is inside the viewport.
C2_AlignPost ==
    (pc = PCAlignOut /\ term_rows >= 3 /\ visual_height = term_rows
        /\ visual_width >= 1) => InViewport

\* C2's case: align_cursor has scrolled down and right, to a cursor on the
\* last content row and the last column.
C2_Witness ==
    /\ pc = PCAlignOut
    /\ term_rows >= 3
    /\ visual_height = term_rows
    /\ visual_width >= 1
    /\ visual_origin_row > 0
    /\ visual_origin_col > 0
    /\ CharToLine(text, cursor_idx) = visual_origin_row + visual_height - 3
    /\ GetLogicalCursorCol(text, cursor_idx) = visual_origin_col + visual_width - 1

\* The origin the claim gives one axis: unchanged when the position is inside
\* [origin, origin + extent), else the one that puts the position on the
\* nearest edge.
NearestEdge(pos, origin, extent) ==
    IF pos < origin THEN pos
    ELSE IF pos >= origin + extent THEN pos - (extent - 1)
    ELSE origin

\* A call of align_cursor, the first or the second.
AlignCall == AlignReturns \/ AlignAgain

\* What C21 says of one call of align_cursor: each axis gets the origin of
\* NearestEdge, the row result is the same for every column origin and
\* width, the column result for every row origin and height, a second call
\* changes nothing, and width 10 with column 12 gives origin_col 3.
MinimalSinglePass ==
    LET line_idx == GetLogicalCursorLine(text, cursor_idx)
        col_idx == GetLogicalCursorCol(text, cursor_idx)
    IN  /\ visual_origin_row' = NearestEdge(line_idx, visual_origin_row, visual_height - 2)
        /\ visual_origin_col' = NearestEdge(col_idx, visual_origin_col, visual_width)
        /\ \A ocol \in 0..MaxOrigin : \A vw \in 0..MaxCols :
              AlignCursor(text, cursor_idx, visual_origin_row, ocol, vw,
                          visual_height, term_rows).visual_origin_row
                = visual_origin_row'
        /\ \A orow \in 0..MaxOrigin : \A vh \in 3..MaxAlignRows :
              AlignCursor(text, cursor_idx, orow, visual_origin_col, visual_width,
                          vh, term_rows).visual_origin_col
                = visual_origin_col'
        /\ AlignAgain => UNCHANGED <<visual_origin_row, visual_origin_col>>
        /\ \A ocol \in 0..3 :
              AlignCursor([i \in 1..12 |-> "a"], 12, 0, ocol, 10, 3, 3).visual_origin_col = 3

RECURSIVE NormalizeFrom(_, _)
\* The while loop of from_path from line_idx on: a line that ends in CR LF
\* loses the CR.
NormalizeFrom(rope, line_idx) ==
    IF line_idx >= LenLines(rope) THEN rope
    ELSE LET line == Line(rope, line_idx)
             len == Len(line)
         IN  IF len >= 2 /\ line[len - 1] = CR /\ line[len] = LF
             THEN NormalizeFrom(Remove(rope, LineToChar(rope, line_idx) + len - 2),
                                line_idx + 1)
             ELSE NormalizeFrom(rope, line_idx + 1)

\* The text Buffer::from_path holds for the decoded contents.
FromPathText(contents) == NormalizeFrom(contents, 0)

(***************************************************************************)
(* Buffer::go_to_next_instance.  The Editor calls it (mod.rs:233, 247);    *)
(* this is its contract: the first occurrence of needle that starts after  *)
(* the character under the cursor.                                         *)
(***************************************************************************)
\* needle occurs in t at offset p.
OccursAt(t, needle, p) ==
    /\ p + Len(needle) <= Len(t)
    /\ SubSeq(t, p + 1, p + Len(needle)) = needle

RECURSIVE ScanFrom(_, _, _)
\* The offset of the first occurrence of needle at or after offset p, or -1.
ScanFrom(t, needle, p) ==
    IF p + Len(needle) > Len(t) THEN -1
    ELSE IF OccursAt(t, needle, p) THEN p
    ELSE ScanFrom(t, needle, p + 1)

\* The C10 mutant of GoToNextInstance: the scan starts at the cursor itself.
GoToNextInstanceFromCursor(t, cur, needle) ==
    LET at == ScanFrom(t, needle, cur)
    IN  IF at >= 0 THEN [found |-> TRUE, cursor_idx |-> at]
        ELSE [found |-> FALSE, cursor_idx |-> cur]

\* Buffer::go_to_next_instance(needle): whether it found one, and the cursor.
GoToNextInstance(t, cur, needle) ==
    LET at == ScanFrom(t, needle, cur + 1)
    IN  IF at >= 0 THEN [found |-> TRUE, cursor_idx |-> at]
        ELSE [found |-> FALSE, cursor_idx |-> cur]

(***************************************************************************)
(* Editor::render: what it needs of the state to run through.  It changes  *)
(* no field of the Editor.                                                 *)
(***************************************************************************)
TAB_WIDTH == 4

RECURSIVE ExpandTabs(_)
\* text.replace('\t', &" ".repeat(TAB_WIDTH))
ExpandTabs(s) ==
    IF s = <<>> THEN <<>>
    ELSE (IF Head(s) = TAB THEN [i \in 1..TAB_WIDTH |-> " "] ELSE <<Head(s)>>)
         \o ExpandTabs(Tail(s))

\* if text.ends_with(c) { text.pop(); }
PopIfEndsWith(s, c) ==
    IF Len(s) >= 1 /\ s[Len(s)] = c THEN SubSeq(s, 1, Len(s) - 1) ELSE s

\* The text of the content row that shows line line_idx, before it is cut or
\* padded to the width.
RowText(t, line_idx, ocol) ==
    LET line == IF line_idx < LenLines(t)
                THEN ExpandTabs(SubSeq(Line(t, line_idx), ocol + 1,
                                       Len(Line(t, line_idx))))
                ELSE <<"~">>
    IN  PopIfEndsWith(PopIfEndsWith(line, LF), CR)

\* unicode_width's width_cjk of one character.
CharWidthCjk(c) ==
    CASE c \in {EACUTE, CJK} -> 2
      [] c \in {LF, CR, TAB} -> 0
      [] OTHER -> 1

RECURSIVE WidthCjk(_)
\* UnicodeWidthStr::width_cjk
WidthCjk(s) == IF s = <<>> THEN 0 ELSE CharWidthCjk(Head(s)) + WidthCjk(Tail(s))

\* Buffer::get_visual_cursor_col, for a cursor within the text: every tab
\* before the cursor on its line counts TAB_WIDTH instead of 1, and the
\* column origin is taken off.
GetVisualCursorCol(t, cur, ocol) ==
    LET cursor_line == Line(t, GetLogicalCursorLine(t, cur))
        up_to_cursor == SubSeq(cursor_line, 1, GetLogicalCursorCol(t, cur))
        tab_count == Cardinality({i \in 1..Len(up_to_cursor) : up_to_cursor[i] = TAB})
    IN  GetLogicalCursorCol(t, cur) + (TAB_WIDTH * tab_count) - ocol - tab_count

\* Buffer::get_visual_cursor_line
GetVisualCursorLine(t, cur, orow) == GetLogicalCursorLine(t, cur) - orow

\* render panics whatever the build: get_visual_cursor_col and
\* get_visual_cursor_line call Rope::char_to_line past the end of the text.
RenderPanics(t, cur) == cur > LenChars(t)

\* A usize subtraction of render overflows: the row count visual_height - 2,
\* a row's padding visual_width - width_cjk, or the cursor's visual column
\* or line.
RenderOverflows(t, cur, orow, ocol, vw, vh, rows) ==
    LET line_idx == GetLogicalCursorLine(t, cur)
        col_idx == GetLogicalCursorCol(t, cur)
        up_to_cursor == SubSeq(Line(t, line_idx), 1, col_idx)
        tab_count == Cardinality({i \in 1..Len(up_to_cursor) : up_to_cursor[i] = TAB})
    IN  \/ rows >= 3 /\ vh < 2
        \/ /\ rows >= 3
           /\ \E i \in 0..(vh - 3) :
                LET row == RowText(t, orow + i, ocol)
                    cut == IF Len(row) > vw THEN SubSeq(row, 1, vw) ELSE row
                IN  Len(cut) < vw /\ WidthCjk(cut) > vw
        \/ col_idx + TAB_WIDTH * tab_count < ocol
        \/ col_idx + TAB_WIDTH * tab_count - ocol < tab_count
        \/ line_idx < orow

(***************************************************************************)
(* SpecRender: one call of render on a drawn buffer and viewport whose     *)
(* origin is not past the cursor.  screen holds the content rows written.  *)
(***************************************************************************)
\* if text.chars().count() > visual_width { text = take(visual_width) }
Cut(row, vw) == IF Len(row) > vw THEN SubSeq(row, 1, vw) ELSE row

\* The padding visual_width - text.width_cjk() is below zero.  With overflow
\* checks the subtraction panics; without them " ".repeat is asked for close
\* to 2^64 bytes and panics on the capacity.
PadUnderflows(row, vw) == Len(Cut(row, vw)) < vw /\ WidthCjk(Cut(row, vw)) > vw

\* The text render writes for the content row that shows line line_idx.
RenderedRow(t, line_idx, ocol, vw) ==
    LET cut == Cut(RowText(t, line_idx, ocol), vw)
    IN  IF Len(cut) < vw
        THEN cut \o [i \in 1..(vw - WidthCjk(cut)) |-> " "]
        ELSE cut

\* for i in 0..(visual_height - 2), under rows >= 3
ContentRows(vh, rows) == IF rows >= 3 THEN vh - 2 ELSE 0

RenderChars == {"a", CJK, TAB, LF}

InitRender ==
    /\ pc = PCRenderIn
    /\ text \in SeqsUpTo(RenderChars, MaxRenderLen)
    /\ cursor_idx \in 0..Len(text)
    /\ visual_origin_row \in 0..GetLogicalCursorLine(text, cursor_idx)
    /\ visual_origin_col \in 0..GetLogicalCursorCol(text, cursor_idx)
    /\ term_cols \in 0..MaxRenderCols
    /\ term_rows \in 2..MaxRenderRows
    /\ visual_width = term_cols
    /\ visual_height = term_rows
    /\ file_path = <<>>
    /\ disk = <<>>
    /\ args = <<>>
    /\ screen = <<>>
    /\ dirty_buffer = FALSE
    /\ footer_text = <<>>
    /\ raw_mode = TRUE
    /\ alt_screen = TRUE
    /\ prompt_text = ""
    /\ user_input = <<>>
    /\ target = <<>>
    /\ quit = FALSE
    /\ found = "none"
    /\ event = NoEvent

renderRest == <<text, cursor_idx, visual_origin_row, visual_origin_col, visual_width,
                visual_height, file_path, disk, args, dirty_buffer, footer_text,
                term_rows, term_cols, raw_mode, alt_screen, prompt_text, user_input,
                target, quit, found, event>>

\* The content rows whose padding underflows.
BadRows ==
    {i \in 1..ContentRows(visual_height, term_rows) :
        PadUnderflows(RowText(text, visual_origin_row + i - 1, visual_origin_col),
                      visual_width)}

\* render writes every content row and returns.
RenderReturns ==
    /\ pc = PCRenderIn
    /\ BadRows = {}
    /\ screen' = [i \in 1..ContentRows(visual_height, term_rows) |->
                    RenderedRow(text, visual_origin_row + i - 1, visual_origin_col,
                                visual_width)]
    /\ pc' = PCRendered
    /\ UNCHANGED renderRest

\* render panics at the first content row whose padding underflows, with the
\* rows before it written.
RenderPadPanics ==
    /\ pc = PCRenderIn
    /\ BadRows # {}
    /\ LET first == CHOOSE i \in BadRows : \A j \in BadRows : i <= j
       IN  screen' = [i \in 1..(first - 1) |->
                        RenderedRow(text, visual_origin_row + i - 1,
                                    visual_origin_col, visual_width)]
    /\ pc' = PCPanic
    /\ UNCHANGED renderRest

NextRender ==
    \/ RenderReturns
    \/ RenderPadPanics

SpecRender == InitRender /\ [][NextRender]_vars

\* C24: every content row render writes occupies exactly visual_width
\* display cells, wide characters included, render writes all of them, and
\* the padding length never goes below zero.
C24_RowsFillWidth ==
    (pc # PCRenderIn) =>
        /\ pc = PCRendered
        /\ Len(screen) = ContentRows(visual_height, term_rows)
        /\ \A i \in 1..Len(screen) : WidthCjk(screen[i]) = visual_width

(***************************************************************************)
(* Spec: the session.  Editor::from_path, then Editor::mainloop: render,   *)
(* read one event, handle it, align the cursor, and again.  A handler that *)
(* opens a prompt goes on in editor_prompt's loop, which reads the events  *)
(* itself, and resumes when the prompt returns.                            *)
(***************************************************************************)
\* The terminal sizes of the session.
TermRows == 2..MaxRows
TermCols == 1..MaxSessionCols

\* The characters of KeyCode::Char events in the main loop, the command
\* letters d, s and f aside.
SessionChars == {"y"}

\* What a user types into a prompt: these strings and their prefixes.
PromptInputs == {<<>>, <<"y">>, <<"Y">>, <<"y", "e">>, <<"y", "e", "s">>}
PromptChars == {"y", "Y", "e", "s"}

\* The paths the editor is started on, and what fs::read finds there.
Paths == {<<>>, <<"f">>}
FileContents(path) == IF path = <<>> THEN {<<>>} ELSE {<<>>, <<"y", CR, LF>>}

PromptFilename == "Enter new filename> "
PromptExit == "The buffer is unsaved. Do you really want to exit? (y/n): "
PromptTarget == "Enter target text> "
PromptFromTop == "No match found. Search from top? y/n> "

\* editor_prompt's result: Some(val) or None.
Some(val) == [some |-> TRUE, val |-> val]
None == [some |-> FALSE, val |-> <<>>]

InitSession ==
    /\ pc = PCStart
    /\ text = <<>>
    /\ cursor_idx = 0
    /\ visual_origin_row = 0
    /\ visual_origin_col = 0
    /\ visual_width = 0
    /\ visual_height = 0
    /\ file_path = <<>>
    /\ disk = <<>>
    /\ args = <<>>
    /\ screen = <<>>
    /\ dirty_buffer = FALSE
    /\ footer_text = <<>>
    /\ term_rows \in TermRows
    /\ term_cols \in TermCols
    /\ raw_mode = FALSE
    /\ alt_screen = FALSE
    /\ prompt_text = ""
    /\ user_input = <<>>
    /\ target = <<>>
    /\ quit = FALSE
    /\ found = "none"
    /\ event = NoEvent

\* Editor::from_path returns the Editor: the buffer is loaded, raw mode is
\* on and the alternate screen entered.
FromPath ==
    /\ pc = PCStart
    /\ \E path \in Paths : \E contents \in FileContents(path) :
        /\ file_path' = path
        /\ disk' = contents
        /\ text' = FromPathText(contents)
    /\ cursor_idx' = 0
    /\ visual_origin_row' = 0
    /\ visual_origin_col' = 0
    /\ visual_width' = term_cols
    /\ visual_height' = term_rows
    /\ dirty_buffer' = FALSE
    /\ footer_text' = <<>>
    /\ raw_mode' = TRUE
    /\ alt_screen' = TRUE
    /\ pc' = PCMain
    /\ UNCHANGED <<args, screen, term_rows, term_cols, prompt_text, user_input, target,
                   quit, found, event>>

\* Buffer::from_path returns Err: the file is there and cannot be read.
LoadFails ==
    /\ pc = PCStart
    /\ pc' = PCExitErr
    /\ UNCHANGED <<text, cursor_idx, visual_origin_row, visual_origin_col,
                   visual_width, visual_height, file_path, disk, args, screen, dirty_buffer,
                   footer_text, term_rows, term_cols, raw_mode, alt_screen,
                   prompt_text, user_input, target, quit, found, event>>

\* enable_raw_mode()? returns Err.
EnableRawModeFails ==
    /\ pc = PCStart
    /\ pc' = PCExitErr
    /\ raw_mode' = FALSE
    /\ UNCHANGED <<text, cursor_idx, visual_origin_row, visual_origin_col,
                   visual_width, visual_height, file_path, disk, args, screen, dirty_buffer,
                   footer_text, term_rows, term_cols, alt_screen,
                   prompt_text, user_input, target, quit, found, event>>

\* execute!(stdout, EnterAlternateScreen)? returns Err, after enable_raw_mode.
EnterAlternateScreenFails ==
    /\ pc = PCStart
    /\ pc' = PCExitErr
    /\ raw_mode' = TRUE
    /\ UNCHANGED <<text, cursor_idx, visual_origin_row, visual_origin_col,
                   visual_width, visual_height, file_path, disk, args, screen, dirty_buffer,
                   footer_text, term_rows, term_cols, alt_screen,
                   prompt_text, user_input, target, quit, found, event>>

\* What follows a handled event in mainloop: align_cursor, then the head of
\* the loop; or a panic in align_cursor.
LoopTail(t, cur, orow, ocol, vw, vh, rows) ==
    IF AlignPanics(t, cur, rows)
    THEN {[pc |-> PCPanic, visual_origin_row |-> orow, visual_origin_col |-> ocol]}
    ELSE LET r == AlignCursor(t, cur, orow, ocol, vw, vh, rows)
         IN  {[pc |-> PCMain, visual_origin_row |-> r.visual_origin_row,
               visual_origin_col |-> r.visual_origin_col]}
             \union
             (IF r.overflow
              THEN {[pc |-> PCPanic, visual_origin_row |-> orow,
                     visual_origin_col |-> ocol]}
              ELSE {})

\* The handler returned false and left these values: mainloop aligns the
\* cursor and loops.
Loop(t, cur, vw, vh, rows, cols, path, dirty, footer) ==
    /\ text' = t
    /\ cursor_idx' = cur
    /\ visual_width' = vw
    /\ visual_height' = vh
    /\ term_rows' = rows
    /\ term_cols' = cols
    /\ file_path' = path
    /\ UNCHANGED <<args, screen>>
    /\ dirty_buffer' = dirty
    /\ footer_text' = footer
    /\ found' = "none"
    /\ event' = NoEvent
    /\ quit' = FALSE
    /\ prompt_text' = ""
    /\ user_input' = <<>>
    /\ target' = <<>>
    /\ \E o \in LoopTail(t, cur, visual_origin_row, visual_origin_col, vw, vh, rows) :
        /\ pc' = o.pc
        /\ visual_origin_row' = o.visual_origin_row
        /\ visual_origin_col' = o.visual_origin_col
    /\ UNCHANGED <<raw_mode, alt_screen>>

\* The handler of event ev returned true: mainloop breaks, leaves raw mode
\* and the alternate screen, and returns Ok(()).
Quit(ev) ==
    /\ quit' = TRUE
    /\ event' = ev
    /\ raw_mode' = FALSE
    /\ alt_screen' = FALSE
    /\ pc' = PCExitOk
    /\ footer_text' = IF pc = PCPrompt THEN <<>> ELSE footer_text
    /\ prompt_text' = ""
    /\ user_input' = <<>>
    /\ target' = <<>>
    /\ found' = "none"
    /\ UNCHANGED <<text, cursor_idx, visual_origin_row, visual_origin_col,
                   visual_width, visual_height, file_path, disk, args, screen, dirty_buffer,
                   term_rows, term_cols>>

\* The handler of event ev calls editor_prompt(ptext), which comes to the
\* head of its loop with the footer set.
OpenPrompt(ptext, tgt, fnd, ev) ==
    /\ pc' = PCPrompt
    /\ prompt_text' = ptext
    /\ user_input' = <<>>
    /\ footer_text' = <<ptext>>
    /\ target' = tgt
    /\ found' = fnd
    /\ event' = ev
    /\ quit' = FALSE
    /\ UNCHANGED <<text, cursor_idx, visual_origin_row, visual_origin_col,
                   visual_width, visual_height, file_path, disk, args, screen, dirty_buffer,
                   term_rows, term_cols, raw_mode, alt_screen>>

\* The thread panics while event ev is handled (or, with NoEvent, in render).
Panic(ev, path) ==
    /\ pc' = PCPanic
    /\ event' = ev
    /\ file_path' = path
    /\ UNCHANGED <<disk, args, screen>>
    /\ UNCHANGED <<text, cursor_idx, visual_origin_row, visual_origin_col,
                   visual_width, visual_height, dirty_buffer, footer_text,
                   term_rows, term_cols, raw_mode, alt_screen, prompt_text,
                   user_input, target, quit, found>>

\* render ran through (in a build without overflow checks, also past an
\* overflowing subtraction) and read() is called.
Reads == ~RenderPanics(text, cursor_idx)

\* Whether Buffer::save_file can write to path: an empty path never opens.
SaveOutcomes(path) == IF path = <<>> THEN {FALSE} ELSE BOOLEAN

\* The C6 mutant of DirtyAfterSave: a save leaves the flag as it was.
DirtyAfterSaveKept(dirty) == dirty

\* Buffer.dirty_buffer after a save_file that succeeded.
DirtyAfterSave(dirty) == FALSE

\* The C5 mutant of Affirmative: only the lower-case answers count.
AffirmativeLowerCase(str) == str = <<"y">> \/ str = <<"y", "e", "s">>

\* attempt_exit's test of the response: str == "y" || str == "Y" || str == "yes".
Affirmative(str) == str = <<"y">> \/ str = <<"Y">> \/ str = <<"y", "e", "s">>

\* The events of the main loop.
CtrlD == Key("Char", "d", TRUE)
CtrlS == Key("Char", "s", TRUE)
CtrlF == Key("Char", "f", TRUE)
F10 == Key("F10", "", FALSE)

\* The key presses Editor::handle_key_event passes on to the Buffer.
ForwardedKeys(ctrl) ==
    {Key(code, "", ctrl) :
        code \in {"Right", "Left", "Up", "Down", "Home", "End", "Enter",
                  "Tab", "Backspace", "Delete", "Esc"}}
    \union {Key("Char", c, ctrl) : c \in SessionChars}
    \union (IF ctrl THEN {Key("F10", "", TRUE)} ELSE {})

\* save_file on path, called while ev is handled: it returns and the footer
\* reads saved, or File::create(..).unwrap() panics.
Saves(path, saved, ev) ==
    \E ok \in SaveOutcomes(path) :
        IF ok
        THEN /\ Loop(text, cursor_idx, visual_width, visual_height, term_rows,
                     term_cols, path, DirtyAfterSave(dirty_buffer), saved)
             /\ disk' = text
        ELSE Panic(ev, path)

\* The handler returned false and changed nothing but the footer.
LoopWithFooter(footer) ==
    /\ Loop(text, cursor_idx, visual_width, visual_height, term_rows, term_cols,
            file_path, dirty_buffer, footer)
    /\ UNCHANGED disk

\* The handler returned false after a search that left the cursor at cur.
LoopAfterSearch(cur, footer) ==
    /\ Loop(text, cur, visual_width, visual_height, term_rows, term_cols,
            file_path, dirty_buffer, footer)
    /\ UNCHANGED disk

\* render returns Err: mainloop returns it.
RenderFails ==
    /\ pc = PCMain
    /\ pc' = PCExitErr
    /\ UNCHANGED <<text, cursor_idx, visual_origin_row, visual_origin_col,
                   visual_width, visual_height, file_path, disk, args, screen, dirty_buffer,
                   footer_text, term_rows, term_cols, raw_mode, alt_screen,
                   prompt_text, user_input, target, quit, found, event>>

\* render panics in mainloop.
MainRenderPanics ==
    /\ pc = PCMain
    /\ \/ RenderPanics(text, cursor_idx)
       \/ RenderOverflows(text, cursor_idx, visual_origin_row, visual_origin_col,
                          visual_width, visual_height, term_rows)
    /\ Panic(event, file_path)

\* read() returns Err: mainloop returns it.
ReadFails ==
    /\ pc = PCMain
    /\ Reads
    /\ pc' = PCExitErr
    /\ event' = ReadError
    /\ UNCHANGED <<text, cursor_idx, visual_origin_row, visual_origin_col,
                   visual_width, visual_height, file_path, disk, args, screen, dirty_buffer,
                   footer_text, term_rows, term_cols, raw_mode, alt_screen,
                   prompt_text, user_input, target, quit, found>>

\* F10 without the control modifier.
PressF10 ==
    /\ pc = PCMain
    /\ Reads
    /\ Quit(F10)

\* The C15 mutant of PressCtrlD: it quits without asking.
PressCtrlDUnasked ==
    /\ pc = PCMain
    /\ Reads
    /\ Quit(CtrlD)

\* Ctrl+D: attempt_exit.
PressCtrlD ==
    /\ pc = PCMain
    /\ Reads
    /\ IF dirty_buffer
       THEN OpenPrompt(PromptExit, <<>>, "none", CtrlD)
       ELSE Quit(CtrlD)

\* Ctrl+S: save_buffer.
PressCtrlS ==
    /\ pc = PCMain
    /\ Reads
    /\ IF file_path = <<>>
       THEN OpenPrompt(PromptFilename, <<>>, "none", CtrlS)
       ELSE Saves(file_path, <<"File saved.">>, CtrlS)

\* Ctrl+F: the search, up to its first prompt.
PressCtrlF ==
    /\ pc = PCMain
    /\ Reads
    /\ OpenPrompt(PromptTarget, <<>>, "none", CtrlF)

\* Buffer::handle_key_event(k) called from Editor::handle_key_event.
Forward(k) ==
    LET r == BufferHandleKeyEvent(text, cursor_idx, k)
    IN  /\ Len(r.text) <= MaxEditLen
        /\ Loop(r.text, r.cursor_idx, visual_width, visual_height, term_rows,
                term_cols, file_path, DirtyAfterKey(dirty_buffer, k),
                footer_text)
        /\ UNCHANGED disk

\* Any other key press with the control modifier.
ForwardCtrlKey ==
    /\ pc = PCMain
    /\ Reads
    /\ \E k \in ForwardedKeys(TRUE) : Forward(k)

\* Any key press without the control modifier but F10.
ForwardKey ==
    /\ pc = PCMain
    /\ Reads
    /\ \E k \in ForwardedKeys(FALSE) : Forward(k)

\* A key event that is no press.
KeyNotPressed ==
    /\ pc = PCMain
    /\ Reads
    /\ \E k \in {KeyNotPress("F10", "", FALSE), KeyNotPress("Char", "d", TRUE),
                 KeyNotPress("Char", "y", FALSE)} :
        /\ k.kind = "Key"
        /\ LoopWithFooter(footer_text)

\* Event::Resize(w, h) in mainloop.
MainResize ==
    /\ pc = PCMain
    /\ Reads
    /\ \E w \in TermCols, h \in TermRows :
        /\ Loop(text, cursor_idx, w, h, h, w, file_path, dirty_buffer, footer_text)
        /\ UNCHANGED disk

\* Any other event in mainloop.
MainOtherEvent ==
    /\ pc = PCMain
    /\ Reads
    /\ LoopWithFooter(footer_text)

\* editor_prompt reads on: the state outside the prompt stays as it is.
promptFrame == <<pc, text, cursor_idx, visual_origin_row, visual_origin_col,
                 visual_width, visual_height, file_path, disk, args, screen, dirty_buffer,
                 raw_mode, alt_screen, prompt_text, target, quit, found>>

\* render panics in editor_prompt (render().ok() drops only an Err).
PromptRenderPanics ==
    /\ pc = PCPrompt
    /\ \/ RenderPanics(text, cursor_idx)
       \/ RenderOverflows(text, cursor_idx, visual_origin_row, visual_origin_col,
                          visual_width, visual_height, term_rows)
    /\ Panic(event, file_path)

\* KeyCode::Char(x) in a prompt: user_input.push(x).
PromptChar ==
    /\ pc = PCPrompt
    /\ Reads
    /\ \E x \in PromptChars :
        /\ Append(user_input, x) \in PromptInputs
        /\ user_input' = Append(user_input, x)
    /\ footer_text' = <<prompt_text>> \o user_input'
    /\ UNCHANGED <<term_rows, term_cols, event>>
    /\ UNCHANGED promptFrame

\* KeyCode::Backspace in a prompt: user_input.pop().
PromptBackspace ==
    /\ pc = PCPrompt
    /\ Reads
    /\ user_input' = IF user_input = <<>> THEN <<>>
                     ELSE SubSeq(user_input, 1, Len(user_input) - 1)
    /\ footer_text' = <<prompt_text>> \o user_input'
    /\ UNCHANGED <<term_rows, term_cols, event>>
    /\ UNCHANGED promptFrame

\* Any other key press, a key event that is no press, or another event,
\* in a prompt.
PromptIgnores ==
    /\ pc = PCPrompt
    /\ Reads
    /\ \E ev \in {Key("Left", "", FALSE), KeyNotPress("Enter", "", FALSE),
                   OtherEvent} : ev.kind # "Resize"
    /\ footer_text' = <<prompt_text>> \o user_input
    /\ UNCHANGED <<user_input, term_rows, term_cols, event>>
    /\ UNCHANGED promptFrame

\* The C16 mutant of PromptResize: the prompt takes the new size into the
\* viewport.
PromptResizeApplied ==
    /\ pc = PCPrompt
    /\ Reads
    /\ \E w \in TermCols, h \in TermRows :
        /\ term_cols' = w
        /\ term_rows' = h
        /\ visual_width' = w
        /\ visual_height' = h
    /\ footer_text' = <<prompt_text>> \o user_input
    /\ UNCHANGED <<pc, text, cursor_idx, visual_origin_row, visual_origin_col,
                   file_path, disk, args, screen, dirty_buffer, raw_mode, alt_screen,
                   prompt_text, target, quit, found, user_input, event>>

\* Event::Resize(w, h) in a prompt: the terminal has the new size, and the
\* prompt reads on.
PromptResize ==
    /\ pc = PCPrompt
    /\ Reads
    /\ \E w \in TermCols, h \in TermRows :
        /\ term_cols' = w
        /\ term_rows' = h
    /\ footer_text' = <<prompt_text>> \o user_input
    /\ UNCHANGED <<user_input, event>>
    /\ UNCHANGED promptFrame

\* editor_prompt returns resp, with the footer it leaves, and the handler
\* that called it goes on.
PromptReturns(resp, footer) ==
    CASE prompt_text = PromptExit ->
            \* attempt_exit
            IF resp.some /\ Affirmative(resp.val)
            THEN Quit(event)
            ELSE LoopWithFooter(footer)
      [] prompt_text = PromptFilename ->
            \* save_buffer
            IF resp.some
            THEN Saves(file_path \o resp.val,
                       <<"New file saved as ">> \o resp.val, event)
            ELSE LoopWithFooter(<<"No file name given, cancelled save.">>)
      [] prompt_text = PromptTarget ->
            \* Ctrl+F, after its first prompt
            IF resp.some
            THEN LET r == GoToNextInstance(text, cursor_idx, resp.val)
                 IN  IF r.found
                     THEN LoopAfterSearch(r.cursor_idx, <<"Match found.">>)
                     ELSE OpenPrompt(PromptFromTop, resp.val, "no", event)
            ELSE LoopWithFooter(<<"Search cancelled.">>)
      [] prompt_text = PromptFromTop ->
            \* Ctrl+F, after its second prompt
            IF resp.some
            THEN IF resp.val = <<"y">>
                 THEN LET r == GoToNextInstance(text, 0, target)
                      IN  IF r.found
                          THEN LoopAfterSearch(r.cursor_idx, <<"Match found.">>)
                          ELSE LoopAfterSearch(cursor_idx, <<"No match found.">>)
                 ELSE LoopWithFooter(footer)
            ELSE LoopWithFooter(<<"Search cancelled.">>)

\* KeyCode::Enter in a prompt: it clears the footer and returns
\* Some(user_input).
PromptEnter ==
    /\ pc = PCPrompt
    /\ Reads
    /\ PromptReturns(Some(user_input), <<>>)

\* KeyCode::Esc in a prompt: it clears the footer and returns None.
PromptEsc ==
    /\ pc = PCPrompt
    /\ Reads
    /\ PromptReturns(None, <<>>)

\* read() returns Err in a prompt: it returns None, the footer as it was.
PromptReadFails ==
    /\ pc = PCPrompt
    /\ Reads
    /\ PromptReturns(None, footer_text)

Next ==
    \/ FromPath
    \/ LoadFails
    \/ EnableRawModeFails
    \/ EnterAlternateScreenFails
    \/ RenderFails
    \/ MainRenderPanics
    \/ ReadFails
    \/ PressF10
    \/ PressCtrlD
    \/ PressCtrlS
    \/ PressCtrlF
    \/ ForwardCtrlKey
    \/ ForwardKey
    \/ KeyNotPressed
    \/ MainResize
    \/ MainOtherEvent
    \/ PromptRenderPanics
    \/ PromptChar
    \/ PromptBackspace
    \/ PromptIgnores
    \/ PromptResize
    \/ PromptEnter
    \/ PromptEsc
    \/ PromptReadFails

Spec == InitSession /\ [][Next]_vars

(***************************************************************************)
(* Claims about the session.                                               *)
(***************************************************************************)
\* render is about to run: the head of mainloop's loop or of
\* editor_prompt's loop.
AtRender == pc \in {PCMain, PCPrompt}

\* C3: every time render runs with a terminal of at least 3 rows, after
\* whatever events came before (prompts and resizes among them), the cursor's
\* logical line and column lie inside the viewport.
C3_ViewportAtRender == (AtRender /\ term_rows >= 3) => InViewport

\* The responses attempt_exit is to take for a yes, spelled out.
ExitAnswers == {<<"y">>, <<"Y">>, <<"y", "e", "s">>}

\* The exit confirmation is open.
ExitPromptOpen == pc = PCPrompt /\ prompt_text = PromptExit

\* The handler returned false: the session has not ended, and mainloop went
\* on to align_cursor, which brings it back to the head of its loop whenever
\* the viewport has the terminal's size.
StaysRunning ==
    /\ ~quit'
    /\ pc' \in {PCMain, PCPanic}
    /\ (visual_width = term_cols /\ visual_height = term_rows) => pc' = PCMain
    /\ raw_mode' /\ alt_screen'
    /\ text' = text
    /\ cursor_idx' = cursor_idx

\* C5: Ctrl+D on a dirty buffer opens the exit confirmation and does not
\* quit; Enter in that prompt quits if and only if the response is "y", "Y"
\* or "yes"; any other response committed, or the prompt cancelled (Esc, or
\* a failed read), leaves the session running with text and cursor
\* unchanged; Ctrl+D on a buffer that is not dirty quits without a prompt.
C5_ExitConfirmation ==
    [][/\ (PressCtrlD /\ dirty_buffer) =>
            (ExitPromptOpen' /\ user_input' = <<>> /\ ~quit'
                /\ text' = text /\ cursor_idx' = cursor_idx)
       /\ (PressCtrlD /\ ~dirty_buffer) => (quit' /\ pc' = PCExitOk)
       /\ (ExitPromptOpen /\ PromptEnter) =>
            /\ (quit' /\ pc' = PCExitOk) <=> user_input \in ExitAnswers
            /\ user_input \notin ExitAnswers => StaysRunning
       /\ (ExitPromptOpen /\ (PromptEsc \/ PromptReadFails)) => StaysRunning
       /\ (ExitPromptOpen /\ pc' = PCExitOk) => user_input \in ExitAnswers
      ]_vars

\* C5's case: the session has ended on Ctrl+D with the buffer dirty, that
\* is, through a confirmed prompt.
C5_Witness == pc = PCExitOk /\ event = CtrlD /\ dirty_buffer /\ quit

\* The key codes of the edit operations.
EditCodes == {"Char", "Enter", "Tab", "Backspace", "Delete"}

\* This step is Buffer::handle_key_event(k), called for a key press of the
\* main loop.
Handles(k) == pc = PCMain /\ Reads /\ Forward(k)

\* This step is an edit operation.
EditStep ==
    \E ctrl \in BOOLEAN : \E k \in ForwardedKeys(ctrl) :
        k.code \in EditCodes /\ Handles(k)

\* This step is a Ctrl+S whose save_file returned: at once, or after the
\* file name prompt.
SaveStep ==
    \/ PressCtrlS /\ file_path # <<>> /\ event' = NoEvent
    \/ PromptEnter /\ prompt_text = PromptFilename /\ event' = NoEvent

SaveFailedFooter == <<"File save failed. Please try again.">>

\* This step is a Ctrl+S whose save_file did not return: the path could not
\* be opened for writing.
SaveFailStep ==
    \/ PressCtrlS /\ file_path # <<>> /\ event' = CtrlS
    \/ PromptEnter /\ prompt_text = PromptFilename /\ event' = CtrlS
        /\ pc' # PCPrompt

\* C7: a Ctrl+S whose target path cannot be opened for writing leaves the
\* session at the head of the main loop, the footer reading that the save
\* failed, text and cursor unchanged.
C7_SaveFailureRecoverable ==
    [][SaveFailStep =>
        /\ pc' = PCMain
        /\ footer_text' = SaveFailedFooter
        /\ text' = text
        /\ cursor_idx' = cursor_idx
      ]_vars

\* The session has ended: mainloop or from_path returned.
Ended == pc \in {PCExitOk, PCExitErr}

\* C8: whenever the session has ended, by a quit or by an error returned
\* from render, from the event read or while the terminal was set up, raw
\* mode is off and the alternate screen left.
C8_TerminalRestored == Ended => (~raw_mode /\ ~alt_screen)

\* C9: at every render the viewport has the terminal's current size,
\* whether the last resize came in the main loop or in a prompt.
C9_ViewportIsTerminalSize ==
    AtRender => (visual_width = term_cols /\ visual_height = term_rows)

\* The cells render writes on the cursor's row for the characters from the
\* column origin up to the cursor: it skips visual_origin_col characters of
\* the line and replaces each tab of the rest by TAB_WIDTH spaces.
CellsToCursor(t, cur, ocol) ==
    LET cursor_line == Line(t, GetLogicalCursorLine(t, cur))
    IN  Len(ExpandTabs(SubSeq(cursor_line, ocol + 1, GetLogicalCursorCol(t, cur))))

\* render runs on an aligned viewport: the terminal has at least 3 rows, the
\* viewport has the terminal's size and the cursor is inside it.
AtAlignedRender ==
    /\ AtRender
    /\ term_rows >= 3
    /\ visual_width = term_cols
    /\ visual_height = term_rows
    /\ cursor_idx <= LenChars(text)
    /\ InViewport

\* C22: at every render after alignment the cursor's visual column is less
\* than visual_width and equals the number of cells render writes on the
\* cursor's row for the characters between visual_origin_col and the cursor,
\* tabs counted as TAB_WIDTH cells, also with tabs before the origin.
C22_CursorOnText ==
    AtAlignedRender =>
        /\ GetVisualCursorCol(text, cursor_idx, visual_origin_col) < visual_width
        /\ GetVisualCursorCol(text, cursor_idx, visual_origin_col)
             = CellsToCursor(text, cursor_idx, visual_origin_col)

\* C23: in every state in which render runs, terminals of fewer than 3 rows
\* included, the cursor's logical line is at least visual_origin_row and its
\* logical column at least visual_origin_col, so get_visual_cursor_line and
\* get_visual_cursor_col do not underflow.  Stated for the renders whose
\* viewport has the terminal's size, which leaves out those after a resize
\* that a prompt dropped.
C23_VisualCursorDefined ==
    (AtRender /\ visual_width = term_cols /\ visual_height = term_rows
        /\ cursor_idx <= LenChars(text)) =>
        /\ GetLogicalCursorLine(text, cursor_idx) >= visual_origin_row
        /\ GetLogicalCursorCol(text, cursor_idx) >= visual_origin_col
        /\ GetVisualCursorLine(text, cursor_idx, visual_origin_row) >= 0
        /\ GetVisualCursorCol(text, cursor_idx, visual_origin_col) >= 0

\* C25: a key press with the control modifier and a character code other
\* than d, s and f leaves text, cursor and dirty flag unchanged, and of the
\* control combinations passed on to the Buffer only Ctrl+Home and Ctrl+End
\* change the buffer's state.
C25_CtrlCharsInert ==
    [][\A k \in ForwardedKeys(TRUE) :
        Handles(k) =>
            /\ k.code = "Char" => UNCHANGED <<text, cursor_idx, dirty_buffer>>
            /\ k.code \notin {"Home", "End"} => UNCHANGED <<text, cursor_idx>>]_vars

\* The footers that say an action was cancelled.
CancelFooters ==
    {<<"No file name given, cancelled save.">>, <<"Search cancelled.">>}

\* C11: a prompt cancelled by Escape or by a failed read abandons the action
\* that opened it (no file is written, the file path, text and cursor stay,
\* the session does not quit) and the footer afterwards says so.
C11_CancelReported ==
    [][(pc = PCPrompt /\ (PromptEsc \/ PromptReadFails)) =>
        /\ ~quit'
        /\ pc' # PCExitOk
        /\ disk' = disk
        /\ file_path' = file_path
        /\ text' = text
        /\ cursor_idx' = cursor_idx
        /\ footer_text' \in CancelFooters
      ]_vars

\* C15: mainloop returns Ok only on an F10 press without the control
\* modifier, on Ctrl+D with a buffer that is not dirty, or on a yes to the
\* exit confirmation; F10 quits whatever the dirty flag; no other key press,
\* no key event that is no press, no resize and no other event ends the
\* session.
C15_QuitOnly ==
    [][/\ (pc # PCExitOk /\ pc' = PCExitOk) =>
            \/ PressF10
            \/ PressCtrlD /\ ~dirty_buffer
            \/ ExitPromptOpen /\ PromptEnter /\ user_input \in ExitAnswers
       /\ PressF10 => (pc' = PCExitOk /\ quit')
       /\ (ForwardKey \/ ForwardCtrlKey \/ KeyNotPressed \/ MainResize
            \/ MainOtherEvent \/ PressCtrlS \/ PressCtrlF) =>
                (pc' # PCExitOk /\ ~quit')
      ]_vars

\* C15's case: F10 has ended the session with the buffer dirty.
C15_Witness == pc = PCExitOk /\ event = F10 /\ dirty_buffer /\ quit

\* C16: from the step that opens a prompt and through every event the
\* prompt consumes, also when one prompt follows another, text, cursor,
\* scroll origin, viewport size, file path and dirty flag stay as they were.
C16_PromptFrame ==
    [][(pc \in {PCMain, PCPrompt} /\ pc' = PCPrompt) =>
        UNCHANGED <<text, cursor_idx, visual_origin_row, visual_origin_col,
                    visual_width, visual_height, file_path, dirty_buffer>>
      ]_vars

\* C16's case: a prompt has consumed characters and a resize.
C16_Witness ==
    /\ pc = PCPrompt
    /\ user_input = <<"y", "e">>
    /\ term_rows # visual_height
    /\ dirty_buffer

\* The offsets at which needle occurs in t.
Occurrences(t, needle) == {p \in 0..Len(t) : OccursAt(t, needle, p)}

\* C20: a "y" to the search-from-top prompt, for a target that is not empty,
\* leaves the cursor at the first occurrence of the target in the whole
\* text, one at offset 0 included,
\* and where it was only when the target occurs nowhere.
C20_SearchFromTop ==
    [][(pc = PCPrompt /\ prompt_text = PromptFromTop /\ user_input = <<"y">>
            /\ target # <<>> /\ PromptEnter) =>
        LET occ == Occurrences(text, target)
        IN  /\ occ = {} => cursor_idx' = cursor_idx
            /\ occ # {} => (cursor_idx' \in occ /\ \A p \in occ : cursor_idx' <= p)
      ]_vars

(***************************************************************************)
(* SpecLoad: Buffer::from_path on a file, then Buffer::save_file at once.  *)
(***************************************************************************)
\* The characters of the files loaded: a letter and the two of CRLF.
FileChars == {"a", CR, LF}

InitLoad ==
    /\ pc = PCStart
    /\ disk \in SeqsUpTo(FileChars, MaxLoadLen)
    /\ file_path = <<"f">>
    /\ text = <<>>
    /\ cursor_idx = 0
    /\ visual_origin_row = 0
    /\ visual_origin_col = 0
    /\ visual_width = 0
    /\ visual_height = 0
    /\ args = <<>>
    /\ screen = <<>>
    /\ dirty_buffer = FALSE
    /\ footer_text = <<>>
    /\ term_rows = MaxRows
    /\ term_cols = MaxCols
    /\ raw_mode = FALSE
    /\ alt_screen = FALSE
    /\ prompt_text = ""
    /\ user_input = <<>>
    /\ target = <<>>
    /\ quit = FALSE
    /\ found = "none"
    /\ event = NoEvent

loadRest == <<file_path, args, screen, footer_text, term_rows, term_cols, raw_mode,
              alt_screen, prompt_text, user_input, target, quit, found, event>>

\* Buffer::from_path returns the Buffer.
LoadFile ==
    /\ pc = PCStart
    /\ text' = FromPathText(disk)
    /\ cursor_idx' = 0
    /\ visual_origin_row' = 0
    /\ visual_origin_col' = 0
    /\ visual_width' = term_cols
    /\ visual_height' = term_rows
    /\ dirty_buffer' = FALSE
    /\ pc' = PCLoaded
    /\ UNCHANGED disk
    /\ UNCHANGED loadRest

\* Buffer::save_file writes the text and returns.
SaveFile ==
    /\ pc = PCLoaded
    /\ disk' = text
    /\ dirty_buffer' = DirtyAfterSave(dirty_buffer)
    /\ pc' = PCSaved
    /\ UNCHANGED <<text, cursor_idx, visual_origin_row, visual_origin_col,
                   visual_width, visual_height>>
    /\ UNCHANGED loadRest

\* Buffer::save_file panics: File::create(..).unwrap() on a path that cannot
\* be opened for writing.
SaveFilePanics ==
    /\ pc = PCLoaded
    /\ pc' = PCPanic
    /\ UNCHANGED <<text, cursor_idx, visual_origin_row, visual_origin_col,
                   visual_width, visual_height, disk, dirty_buffer>>
    /\ UNCHANGED loadRest

NextLoad ==
    \/ LoadFile
    \/ SaveFile
    \/ SaveFilePanics

SpecLoad == InitLoad /\ [][NextLoad]_vars

RECURSIVE CrlfToLf(_)
\* s with every "\r\n" replaced by "\n".
CrlfToLf(s) ==
    IF s = <<>> THEN <<>>
    ELSE IF Len(s) >= 2 /\ s[1] = CR /\ s[2] = LF
         THEN <<LF>> \o CrlfToLf(SubSeq(s, 3, Len(s)))
         ELSE <<s[1]>> \o CrlfToLf(Tail(s))

\* C12: the text from_path holds is the decoded content with every "\r\n"
\* replaced by "\n"; save_file right after writes exactly that text, so the
\* file then holds its old content with every "\r\n" replaced by "\n", and a
\* file without "\r\n" the content it had.
C12_LoadSaveRoundTrip ==
    [][/\ (pc = PCStart /\ pc' = PCLoaded) => text' = CrlfToLf(disk)
       /\ (pc = PCLoaded /\ pc' = PCSaved) =>
            /\ disk' = text
            /\ disk' = CrlfToLf(disk)
            /\ CrlfToLf(disk) = disk => disk' = disk
      ]_vars

(***************************************************************************)
(* SpecMain: main (src/src/main.rs) from its command line to the start of  *)
(* its loop.                                                               *)
(***************************************************************************)
\* The arguments given on the command line.
ArgNames == {"f", "g", "h"}

InitMain ==
    /\ pc = PCStart
    /\ args \in SeqsUpTo(ArgNames, MaxArgs)
    /\ screen = <<>>
    /\ disk \in SeqsUpTo({"a"}, 2)
    /\ file_path = <<>>
    /\ text = <<>>
    /\ cursor_idx = 0
    /\ visual_origin_row = 0
    /\ visual_origin_col = 0
    /\ visual_width = 0
    /\ visual_height = 0
    /\ dirty_buffer = FALSE
    /\ footer_text = <<>>
    /\ term_rows = MaxRows
    /\ term_cols = MaxCols
    /\ raw_mode = FALSE
    /\ alt_screen = FALSE
    /\ prompt_text = ""
    /\ user_input = <<>>
    /\ target = <<>>
    /\ quit = FALSE
    /\ found = "none"
    /\ event = NoEvent

mainRest == <<cursor_idx, visual_origin_row, visual_origin_col, visual_width,
              visual_height, disk, args, screen, dirty_buffer, footer_text, term_rows,
              term_cols, prompt_text, user_input, target, quit, found, event>>

\* args.len() != 2, the program's name counted: the usage line and exit(1).
MainUsage ==
    /\ pc = PCStart
    /\ Len(args) + 1 # 2
    /\ pc' = PCUsage
    /\ UNCHANGED <<text, file_path, raw_mode, alt_screen>>
    /\ UNCHANGED mainRest

\* fs::read_to_string(filename) returns Err: "Could not read file." and
\* exit(1).
MainCannotRead ==
    /\ pc = PCStart
    /\ Len(args) + 1 = 2
    /\ pc' = PCExitErr
    /\ UNCHANGED <<text, file_path, raw_mode, alt_screen>>
    /\ UNCHANGED mainRest

\* execute!(stdout, EnterAlternateScreen)? returns Err, the Editor made.
MainEnterAlternateScreenFails ==
    /\ pc = PCStart
    /\ Len(args) + 1 = 2
    /\ text' = disk
    /\ file_path' = <<args[1]>>
    /\ pc' = PCExitErr
    /\ UNCHANGED <<raw_mode, alt_screen>>
    /\ UNCHANGED mainRest

\* enable_raw_mode()? returns Err, the alternate screen entered.
MainEnableRawModeFails ==
    /\ pc = PCStart
    /\ Len(args) + 1 = 2
    /\ text' = disk
    /\ file_path' = <<args[1]>>
    /\ alt_screen' = TRUE
    /\ pc' = PCExitErr
    /\ UNCHANGED raw_mode
    /\ UNCHANGED mainRest

\* main comes to the head of its loop: the file read, the Editor made of
\* its contents and its name, the alternate screen entered and raw mode on.
MainStarts ==
    /\ pc = PCStart
    /\ Len(args) + 1 = 2
    /\ text' = disk
    /\ file_path' = <<args[1]>>
    /\ alt_screen' = TRUE
    /\ raw_mode' = TRUE
    /\ pc' = PCMain
    /\ UNCHANGED mainRest

NextMain ==
    \/ MainUsage
    \/ MainCannotRead
    \/ MainEnterAlternateScreenFails
    \/ MainEnableRawModeFails
    \/ MainStarts

SpecMain == InitMain /\ [][NextMain]_vars

\* C19: with no argument the program starts a session on an empty buffer
\* without a name; with one argument it does not print the usage line; with
\* more than one it prints the usage line and exits non-zero, raw mode and
\* the alternate screen never entered.
C19_Arity ==
    [][pc = PCStart =>
        /\ Len(args) = 0 =>
            (pc' = PCMain /\ text' = <<>> /\ file_path' = <<>>)
        /\ Len(args) = 1 => pc' # PCUsage
        /\ Len(args) > 1 => (pc' = PCUsage /\ ~raw_mode' /\ ~alt_screen')
      ]_vars

(***************************************************************************)
(* SpecSearch: go_to_next_instance called again and again on a loaded      *)
(* text, the cursor at its start.                                          *)
(***************************************************************************)
SearchChars == {"f", "o", "x"}

\* The text and the needle of the documented example.
SearchExample == <<"x", "x", "f", "o", "o", "x", "x", "f", "o", "o", "x", "x">>
Foo == <<"f", "o", "o">>

SearchTexts == SeqsUpTo(SearchChars, MaxSearchLen) \union {SearchExample}
Needles == SeqsUpTo(SearchChars, 2) \union {Foo}

InitSearch ==
    /\ pc = PCSearch
    /\ text \in SearchTexts
    /\ cursor_idx = 0
    /\ RestInit

\* One call of go_to_next_instance(needle).
SearchNext ==
    /\ pc = PCSearch
    /\ \E needle \in Needles :
        LET r == GoToNextInstance(text, cursor_idx, needle)
        IN  /\ cursor_idx' = r.cursor_idx
            /\ found' = (IF r.found THEN "yes" ELSE "no")
            /\ target' = needle
    /\ UNCHANGED <<pc, text, visual_origin_row, visual_origin_col, visual_width,
                   visual_height, file_path, disk, args, screen, dirty_buffer, footer_text,
                   term_rows, term_cols, raw_mode, alt_screen, prompt_text,
                   user_input, quit, event>>

NextSearch == SearchNext

SpecSearch == InitSearch /\ [][NextSearch]_vars

\* The offsets after cur at which needle occurs in t.
StartsAfter(t, cur, needle) ==
    {p \in (cur + 1)..Len(t) : p + Len(needle) <= Len(t)
                                /\ \A i \in 1..Len(needle) : t[p + i] = needle[i]}

\* C10: go_to_next_instance(needle) leaves the text alone; if needle occurs
\* at an offset strictly after the cursor, it reports found and the cursor
\* is at the least such offset, so further than it was; otherwise it reports
\* not found and the cursor stays.  On "xxfooxxfooxx" with "foo": from 0 to
\* 2, from 2 to 7, and from 7 not found with the cursor at 7.
C10_ForwardSearch ==
    [][pc = PCSearch =>
        LET starts == StartsAfter(text, cursor_idx, target')
        IN  /\ text' = text
            /\ found' \in {"yes", "no"}
            /\ starts = {} => (found' = "no" /\ cursor_idx' = cursor_idx)
            /\ starts # {} =>
                /\ found' = "yes"
                /\ cursor_idx' \in starts
                /\ \A p \in starts : cursor_idx' <= p
                /\ cursor_idx' > cursor_idx
            /\ (text = SearchExample /\ target' = Foo) =>
                /\ cursor_idx = 0 => (found' = "yes" /\ cursor_idx' = 2)
                /\ cursor_idx = 2 => (found' = "yes" /\ cursor_idx' = 7)
                /\ cursor_idx = 7 => (found' = "no" /\ cursor_idx' = 7)
      ]_vars

\* C10's case: on the example the searches for "foo" have come to the second
\* occurrence, and the next one found nothing and left the cursor there.
C10_Witness ==
    /\ pc = PCSearch
    /\ text = SearchExample
    /\ target = Foo
    /\ cursor_idx = 7
    /\ found = "no"

====
